---- MODULE Spec2Model ----
(***************************************************************************)
(* Model of graph_generator.py: the traversal that accumulates the node    *)
(* and edge lists of a Java code base, the hierarchy assembly, and the     *)
(* aggregate / modular export.                                             *)
(*                                                                         *)
(* Python strings are modelled as sequences of one-character strings, so   *)
(* that split('.'), replace('.', '_'), endswith and relpath are computed   *)
(* character by character as the code computes them.                       *)
(***************************************************************************)
EXTENDS Integers, Sequences, FiniteSets, TLC

(* ------------------------------------------------------------------ *)
(* Bounds                                                             *)
(* ------------------------------------------------------------------ *)
MaxFiles == 2

(* ------------------------------------------------------------------ *)
(* String helpers (Python str methods)                                *)
(* ------------------------------------------------------------------ *)
None == <<"<None>">>

Truthy(s) == s # None /\ s # <<>>

StartsWith(s, p) == Len(s) >= Len(p) /\ SubSeq(s, 1, Len(p)) = p

EndsWith(s, p) == Len(s) >= Len(p) /\ SubSeq(s, Len(s) - Len(p) + 1, Len(s)) = p

RECURSIVE FirstSegment(_, _)
FirstSegment(s, c) ==
    IF s = <<>> \/ Head(s) = c THEN <<>>
    ELSE <<Head(s)>> \o FirstSegment(Tail(s), c)

Replace(s, a, b) == [i \in 1..Len(s) |-> IF s[i] = a THEN b ELSE s[i]]

RECURSIVE RStrip(_, _)
RStrip(s, c) ==
    IF s # <<>> /\ s[Len(s)] = c THEN RStrip(SubSeq(s, 1, Len(s) - 1), c) ELSE s

RECURSIVE JoinWith(_, _)
JoinWith(parts, sep) ==
    IF parts = <<>> THEN <<>>
    ELSE IF Len(parts) = 1 THEN parts[1]
    ELSE parts[1] \o sep \o JoinWith(Tail(parts), sep)

RECURSIVE Segments(_, _)
Segments(s, c) ==
    IF s = <<>> THEN <<>>
    ELSE LET seg  == FirstSegment(s, c)
             rest == IF Len(seg) = Len(s) THEN <<>> ELSE SubSeq(s, Len(seg) + 2, Len(s))
         IN  IF seg = <<>> THEN Segments(rest, c) ELSE <<seg>> \o Segments(rest, c)

RECURSIVE CommonPrefixLen(_, _)
CommonPrefixLen(a, b) ==
    IF a = <<>> \/ b = <<>> \/ Head(a) # Head(b) THEN 0
    ELSE 1 + CommonPrefixLen(Tail(a), Tail(b))

Sep == "/"
Dot == "."
DotDot == <<".", ".">>

Cwd == <<"/", "w">>

AbsPath(p) == IF StartsWith(p, <<Sep>>) THEN p ELSE Cwd \o <<Sep>> \o p

RelPath(path, start) ==
    LET ps  == Segments(AbsPath(path), Sep)
        ss  == Segments(AbsPath(start), Sep)
        i   == CommonPrefixLen(ss, ps)
        ups == [k \in 1..(Len(ss) - i) |-> DotDot]
        lst == ups \o SubSeq(ps, i + 1, Len(ps))
    IN  IF lst = <<>> THEN <<Dot>> ELSE JoinWith(lst, <<Sep>>)

PathJoin(a, b) ==
    IF StartsWith(b, <<Sep>>) THEN b
    ELSE IF a = <<>> \/ EndsWith(a, <<Sep>>) THEN a \o b
    ELSE a \o <<Sep>> \o b

(* character codes, for the lexicographic order of sorted() *)
Code(c) ==
    CASE c = "." -> 46 [] c = "/" -> 47 [] c = "(" -> 40 [] c = ")" -> 41
      [] c = "," -> 44 [] c = "A" -> 65 [] c = "B" -> 66 [] c = "T" -> 84
      [] c = "_" -> 95 [] c = "a" -> 97 [] c = "d" -> 100 [] c = "e" -> 101
      [] c = "h" -> 104 [] c = "i" -> 105 [] c = "j" -> 106 [] c = "m" -> 109
      [] c = "n" -> 110 [] c = "o" -> 111 [] c = "p" -> 112 [] c = "q" -> 113
      [] c = "r" -> 114 [] c = "s" -> 115 [] c = "t" -> 116 [] c = "v" -> 118
      [] c = "w" -> 119 [] c = "x" -> 120 [] OTHER -> 0

RECURSIVE StrLess(_, _)
StrLess(a, b) ==
    IF b = <<>> THEN FALSE
    ELSE IF a = <<>> THEN TRUE
    ELSE IF Code(Head(a)) < Code(Head(b)) THEN TRUE
    ELSE IF Code(Head(a)) > Code(Head(b)) THEN FALSE
    ELSE StrLess(Tail(a), Tail(b))

RECURSIVE InsertSorted(_, _)
InsertSorted(s, x) ==
    IF s = <<>> THEN <<x>>
    ELSE IF StrLess(x, Head(s)) THEN <<x>> \o s
    ELSE <<Head(s)>> \o InsertSorted(Tail(s), x)

RECURSIVE Sorted(_)
Sorted(s) == IF s = <<>> THEN <<>> ELSE InsertSorted(Sorted(SubSeq(s, 1, Len(s) - 1)), s[Len(s)])

Range(s) == {s[i] : i \in 1..Len(s)}

(* ------------------------------------------------------------------ *)
(* Inputs: the scanned tree and what the parser yields per file       *)
(* ------------------------------------------------------------------ *)
JavaExt == <<".", "j", "a", "v", "a">>
JsonExt == <<".", "j", "s", "o", "n">>

src_dir == <<"/", "s">>

(* file names, relative to src_dir, that os.walk can yield *)
WalkFiles ==
    { <<"p", "/", "A">> \o JavaExt,
      <<"p", ".", "q", "/", "A">> \o JavaExt,
      <<"p", "_", "q", "/", "A">> \o JavaExt }

PackageNames == { <<>>, <<"p">> }

ImportLists == { <<>>, << <<"p", ".", "B">> >> }

NoRef == [tag |-> "none", refs |-> <<>>]
OneRef(n) == [tag |-> "one", refs |-> <<n>>]
ListRef(ns) == [tag |-> "list", refs |-> ns]

FieldX == [kind |-> "field", tname |-> <<"i", "n", "t">>, declarators |-> << <<"x">> >>]

MethodM ==
    [kind |-> "method", name |-> <<"m">>, params |-> << <<"T">> >>,
     return_type |-> None, body |-> TRUE,
     invocations |-> << [qualifier |-> <<"B">>, member |-> <<"h">>],
                        [qualifier |-> None, member |-> <<"h">>] >>]

TypeDecls ==
    { [name |-> <<"A">>, extends |-> OneRef(<<"B">>), implements |-> <<>>,
       body |-> <<FieldX, MethodM>>],
      [name |-> <<"B">>, extends |-> NoRef, implements |-> << <<"A">> >>,
       body |-> <<FieldX>>],
      [name |-> <<"B">>, extends |-> ListRef(<< <<"A">>, <<"B">> >>), implements |-> <<>>,
       body |-> <<>>] }

TypeLists == { <<>> } \cup { <<t>> : t \in TypeDecls }

(* what a file holds: malformed text, or a compilation unit *)
FileContents ==
    { [malformed |-> TRUE, package |-> <<>>, imports |-> <<>>, types |-> <<>>] }
    \cup [malformed : {FALSE}, package : PackageNames, imports : ImportLists,
          types : TypeLists]

OutputTargets == { <<"o">> \o JsonExt, <<"o", "/">> }

parse_java_file(content) ==
    IF content.malformed
    THEN [pkg |-> None, imports |-> <<>>, types |-> <<>>]
    ELSE [pkg |-> content.package, imports |-> content.imports, types |-> content.types]

(* ------------------------------------------------------------------ *)
(* Graph builder: the body of the traversal loop                      *)
(* ------------------------------------------------------------------ *)
Edge(s, t, ty) == [source |-> s, target |-> t, type |-> ty]

(* Register without the membership test *)
RegisterUnchecked(g, kind, node) ==
    [g EXCEPT !.nodes = Append(@, node), !.seen[kind] = @ \cup {node.id}]

(* "if id not in seen[kind]: nodes.append(node); seen[kind].add(id)" *)
Register(g, kind, node) ==
    IF node.id \in g.seen[kind] THEN g
    ELSE [g EXCEPT !.nodes = Append(@, node), !.seen[kind] = @ \cup {node.id}]

AddEdge(g, s, t, ty) == [g EXCEPT !.edges = Append(@, Edge(s, t, ty))]

Qualify(pkg, name) == IF Truthy(pkg) THEN pkg \o <<Dot>> \o name ELSE name

RECURSIVE AddImportsEdgeOnly(_, _, _)
(* AddImports that appends the import edge but never the package node *)
AddImportsEdgeOnly(g, path, imports) ==
    IF imports = <<>> THEN g
    ELSE AddImportsEdgeOnly(AddEdge(g, path, Head(imports), "import"), path, Tail(imports))

RECURSIVE AddImports(_, _, _)
AddImports(g, path, imports) ==
    IF imports = <<>> THEN g
    ELSE LET imp == Head(imports)
             g1  == Register(g, "package", [id |-> imp, name |-> imp, type |-> "package"])
         IN  AddImports(AddEdge(g1, path, imp, "import"), path, Tail(imports))

RECURSIVE AddExtends(_, _, _, _)
AddExtends(g, pkg, fqcn, refs) ==
    IF refs = <<>> THEN g
    ELSE LET parent == Head(refs)
             pid    == Qualify(pkg, parent)
             g1     == Register(g, "class", [id |-> pid, name |-> parent, type |-> "class"])
         IN  AddExtends(AddEdge(g1, fqcn, pid, "extends"), pkg, fqcn, Tail(refs))

RECURSIVE AddImplements(_, _, _, _)
AddImplements(g, pkg, fqcn, refs) ==
    IF refs = <<>> THEN g
    ELSE LET name == Head(refs)
             cid  == Qualify(pkg, name)
             g1   == Register(g, "class", [id |-> cid, name |-> name, type |-> "interface"])
         IN  AddImplements(AddEdge(g1, fqcn, cid, "implements"), pkg, fqcn, Tail(refs))

RECURSIVE AddDeclarators(_, _, _, _)
AddDeclarators(g, fqcn, tname, ds) ==
    IF ds = <<>> THEN g
    ELSE LET fid == fqcn \o <<Dot>> \o Head(ds)
             g1  == Register(g, "field",
                        [id |-> fid, name |-> Head(ds), type |-> "field",
                         datatype |-> tname, class |-> fqcn])
         IN  AddDeclarators(AddEdge(g1, fqcn, fid, "contains"), fqcn, tname, Tail(ds))

RECURSIVE AddCalls(_, _, _)
AddCalls(g, mid, invs) ==
    IF invs = <<>> THEN g
    ELSE LET inv    == Head(invs)
             qual   == IF Truthy(inv.qualifier) THEN inv.qualifier \o <<Dot>> ELSE <<>>
             target == qual \o inv.member
         IN  AddCalls(AddEdge(g, mid, target, "calls"), mid, Tail(invs))

AddMethod(g, fqcn, m) ==
    LET sig == m.name \o <<"(">> \o JoinWith(m.params, <<",">>) \o <<")">>
        mid == fqcn \o <<Dot>> \o sig
        g1  == Register(g, "method",
                   [id |-> mid, name |-> m.name, type |-> "method", signature |-> sig,
                    class |-> fqcn,
                    return_type |-> IF m.return_type = None THEN <<"v", "o", "i", "d">>
                                    ELSE m.return_type])
        g2  == AddEdge(g1, fqcn, mid, "contains")
    IN  IF m.body THEN AddCalls(g2, mid, m.invocations) ELSE g2

RECURSIVE AddMembers(_, _, _)
AddMembers(g, fqcn, body) ==
    IF body = <<>> THEN g
    ELSE LET m  == Head(body)
             g1 == IF m.kind = "field" THEN AddDeclarators(g, fqcn, m.tname, m.declarators)
                   ELSE IF m.kind = "method" THEN AddMethod(g, fqcn, m)
                   ELSE g
         IN  AddMembers(g1, fqcn, Tail(body))

NoAttrs == [a \in {} |-> a]

RefsTruthy(r) == r.tag # "none" /\ r.refs # <<>>

(* the class record; "extends" / "implements" only when the declaration has them *)
ClassEntry(cls, pkg, path, fqcn) ==
    [id |-> fqcn, name |-> cls.name, type |-> "class", package |-> pkg, file |-> path]
    @@ (IF RefsTruthy(cls.extends)
        THEN [extends |-> IF cls.extends.tag = "list" THEN cls.extends.refs
                          ELSE cls.extends.refs[1]]
        ELSE NoAttrs)
    @@ (IF cls.implements # <<>> THEN [implements |-> cls.implements] ELSE NoAttrs)

AddClass(g, pkg, path, cls) ==
    LET fqcn == Qualify(pkg, cls.name)
        g1   == Register(g, "class", ClassEntry(cls, pkg, path, fqcn))
        g2   == AddEdge(g1, path, fqcn, "contains")
        g3   == IF RefsTruthy(cls.extends) THEN AddExtends(g2, pkg, fqcn, cls.extends.refs)
                ELSE g2
        g4   == IF cls.implements = <<>> THEN g3
                ELSE AddImplements(g3, pkg, fqcn, cls.implements)
    IN  AddMembers(g4, fqcn, cls.body)

RECURSIVE AddClasses(_, _, _, _)
AddClasses(g, pkg, path, types) ==
    IF types = <<>> THEN g
    ELSE AddClasses(AddClass(g, pkg, path, Head(types)), pkg, path, Tail(types))

AddPackage(g, pkg, path) ==
    IF Truthy(pkg)
    THEN AddEdge(Register(g, "package", [id |-> pkg, name |-> pkg, type |-> "package"]),
                 pkg, path, "contains")
    ELSE g

(* one iteration of "for fname in files" for a .java file *)
ProcessFile(g, path, fname, content) ==
    LET cu == parse_java_file(content)
        g1 == Register(g, "file", [id |-> path, name |-> fname, type |-> "file", path |-> path])
        g2 == AddPackage(g1, cu.pkg, path)
        g3 == AddImports(g2, path, cu.imports)
    IN  AddClasses(g3, cu.pkg, path, cu.types)

BaseName(rel) == LET segs == Segments(rel, Sep) IN segs[Len(segs)]


(* ------------------------------------------------------------------ *)
(* Hierarchy assembler                                                *)
(* ------------------------------------------------------------------ *)
RECURSIVE NodeIds(_)
(* keys of {n['id']: ... for n in ns}, in dict (first insertion) order *)
NodeIds(ns) ==
    IF ns = <<>> THEN <<>>
    ELSE LET front == NodeIds(SubSeq(ns, 1, Len(ns) - 1))
             id    == ns[Len(ns)].id
         IN  IF id \in Range(front) THEN front ELSE Append(front, id)

(* values of the same dict: a later record with the same id replaces the earlier *)
NodeMap(ns) ==
    [id \in {ns[i].id : i \in 1..Len(ns)} |->
        ns[CHOOSE i \in 1..Len(ns) :
              ns[i].id = id /\ \A j \in (i + 1)..Len(ns) : ns[j].id # id]]

RECURSIVE LinksFirstWins(_, _, _)
(* Links that keeps the first parent recorded for a target *)
LinksFirstWins(h, ids, es) ==
    IF es = <<>> THEN h
    ELSE LET e == Head(es)
         IN  IF e.type = "contains" /\ e.source \in ids /\ e.target \in ids
             THEN LinksFirstWins(
                      [children |-> [h.children EXCEPT ![e.source] = Append(@, e.target)],
                       parent   |-> [h.parent EXCEPT ![e.target] =
                                        IF @ = <<"<none>">> THEN e.source ELSE @]],
                      ids, Tail(es))
             ELSE LinksFirstWins(h, ids, Tail(es))

RECURSIVE Links(_, _, _)
(* the loop over edges that fills children lists and the parent map *)
Links(h, ids, es) ==
    IF es = <<>> THEN h
    ELSE LET e == Head(es)
         IN  IF e.type = "contains" /\ e.source \in ids /\ e.target \in ids
             THEN Links([children |-> [h.children EXCEPT ![e.source] = Append(@, e.target)],
                         parent   |-> [h.parent EXCEPT ![e.target] = e.source]],
                        ids, Tail(es))
             ELSE Links(h, ids, Tail(es))

NoParent == <<"<none>">>

EmptyLinks(ids) == [children |-> [i \in ids |-> <<>>], parent |-> [i \in ids |-> NoParent]]

SelectRoots(nm, order, par) ==
    LET pk == SelectSeq(order, LAMBDA n : par[n] = NoParent /\ nm[n].type = "package")
    IN  IF pk = <<>> THEN SelectSeq(order, LAMBDA n : par[n] = NoParent) ELSE pk

Rels(es) == SelectSeq(es, LAMBDA e : e.type # "contains")

RECURSIVE Tree(_, _, _)
(* a node as json.dump writes it: its record with the nested children *)
Tree(nm, ch, id) ==
    [node |-> nm[id], children |-> [i \in 1..Len(ch[id]) |-> Tree(nm, ch, ch[id][i])]]

Forest(nm, ch, rootIds) == [i \in 1..Len(rootIds) |-> Tree(nm, ch, rootIds[i])]

(* ------------------------------------------------------------------ *)
(* State                                                              *)
(* ------------------------------------------------------------------ *)
VARIABLES
    output_file,   \* argv[2], once the export has read it
    visited,       \* files os.walk has already yielded (relative to src_dir)
    nodes, edges, seen,
    pc,            \* "walk" | "assembled" | "done" | "crashed"
    children, parent, roots, rels,
    written,       \* files on disk after the export: path -> content
    printed,       \* what the run prints on stdout
    stderr         \* the "Skipping <file>: parse error" diagnostics

vars == <<output_file, visited, nodes, edges, seen, pc, children, parent, roots, rels,
          written, printed, stderr>>

NoFiles == [f \in {} |-> f]

Init ==
    /\ output_file = <<>>
    /\ visited = {}
    /\ nodes = <<>>
    /\ edges = <<>>
    /\ seen = [package |-> {}, file |-> {}, class |-> {}, method |-> {}, field |-> {}]
    /\ pc = "walk"
    /\ children = NoFiles
    /\ parent = NoFiles
    /\ roots = <<>>
    /\ rels = <<>>
    /\ written = NoFiles
    /\ printed = <<>>
    /\ stderr = <<>>

(* one .java file of the walk: parse it and add what it declares *)
VisitFile(rel, content) ==
    /\ pc = "walk"
    /\ rel \in WalkFiles \ visited
    /\ Cardinality(visited) < MaxFiles
    /\ EndsWith(BaseName(rel), JavaExt)
    /\ LET path == PathJoin(src_dir, rel)
           g    == ProcessFile([nodes |-> nodes, edges |-> edges, seen |-> seen],
                               path, BaseName(rel), content)
       IN  /\ nodes' = g.nodes
           /\ edges' = g.edges
           /\ seen' = g.seen
           /\ stderr' = IF content.malformed THEN Append(stderr, path) ELSE stderr
    /\ visited' = visited \cup {rel}
    /\ UNCHANGED <<output_file, pc, children, parent, roots, rels, written, printed>>

(* "# build hierarchy": runs once the walk is over *)
BuildHierarchy ==
    /\ pc = "walk"
    /\ LET ids == Range(NodeIds(nodes))
           h   == Links(EmptyLinks(ids), ids, edges)
       IN  /\ children' = h.children
           /\ parent' = h.parent
           /\ roots' = SelectRoots(NodeMap(nodes), NodeIds(nodes), h.parent)
    /\ rels' = Rels(edges)
    /\ pc' = "assembled"
    /\ UNCHANGED <<output_file, visited, nodes, edges, seen, written, printed, stderr>>

(* ------------------------------------------------------------------ *)
(* Module partitioner and exporter                                    *)
(* ------------------------------------------------------------------ *)
RootKey == <<"r", "o", "o", "t">>

Get(node, k) == IF k \in DOMAIN node THEN node[k] ELSE None

_module_id(node) ==
    IF node.type = "package" THEN FirstSegment(node.id, Dot)
    ELSE IF node.type = "file"
    THEN LET rel == RelPath(AbsPath(node.id), src_dir)
         IN  IF StartsWith(rel, DotDot) THEN RootKey ELSE FirstSegment(rel, Sep)
    ELSE IF Truthy(Get(node, "package")) THEN FirstSegment(node.package, Dot)
    ELSE LET fpath == IF Truthy(Get(node, "file")) THEN node.file ELSE Get(node, "path")
         IN  IF Truthy(fpath) THEN FirstSegment(RelPath(fpath, src_dir), Sep) ELSE RootKey

(* _module_id of every record of the node list, by position *)
ModuleIds(ns) == [i \in 1..Len(ns) |-> _module_id(ns[i])]

RECURSIVE DistinctInOrder(_)
DistinctInOrder(s) ==
    IF s = <<>> THEN <<>>
    ELSE LET front == DistinctInOrder(SubSeq(s, 1, Len(s) - 1))
         IN  IF s[Len(s)] \in Range(front) THEN front ELSE Append(front, s[Len(s)])

(* keys of top_pkg_map, in dict (first insertion) order *)
ModuleKeys(ns) == DistinctInOrder(ModuleIds(ns))

RECURSIVE SelectAt(_, _, _)
SelectAt(ns, mods, top_pkg) ==
    IF ns = <<>> THEN <<>>
    ELSE IF Head(mods) = top_pkg
    THEN <<Head(ns)>> \o SelectAt(Tail(ns), Tail(mods), top_pkg)
    ELSE SelectAt(Tail(ns), Tail(mods), top_pkg)

module_nodes(ns, top_pkg) == SelectAt(ns, ModuleIds(ns), top_pkg)

module_node_ids(ns, top_pkg) ==
    LET mods == ModuleIds(ns) IN {ns[i].id : i \in {j \in 1..Len(ns) : mods[j] = top_pkg}}

(* EdgesWithin that tests the target only *)
EdgesIntoOnly(es, ids) == SelectSeq(es, LAMBDA e : e.target \in ids)

EdgesWithin(es, ids) == SelectSeq(es, LAMBDA e : e.source \in ids /\ e.target \in ids)

module_edges(ns, es, top_pkg) == EdgesWithin(es, module_node_ids(ns, top_pkg))

RECURSIVE ModLinks(_, _)
(* the module-local loop: no membership test, module_edges is already filtered *)
ModLinks(h, es) ==
    IF es = <<>> THEN h
    ELSE LET e == Head(es)
         IN  IF e.type = "contains"
             THEN ModLinks([children |-> [h.children EXCEPT ![e.source] = Append(@, e.target)],
                            parent   |-> [h.parent EXCEPT ![e.target] = e.source]],
                           Tail(es))
             ELSE ModLinks(h, Tail(es))

(* what one iteration of the per-module loop computes: the module's nodes,    *)
(* edges, links, the ids of sub_hierarchy (the code walks a set, so their     *)
(* order is not fixed) and sub_edges                                          *)
ModuleRecord(mn, ids, me, h) ==
    [module_nodes |-> mn, module_node_ids |-> ids, module_edges |-> me,
     mod_node_map |-> NodeMap(mn), links |-> h,
     sub_root_ids |-> {nid \in ids : h.parent[nid] = NoParent},
     sub_edges |-> Rels(me)]

ModuleLinked(mn, ids, me) == ModuleRecord(mn, ids, me, ModLinks(EmptyLinks(ids), me))

ModuleWithIds(mn, ids, es) == ModuleLinked(mn, ids, EdgesWithin(es, ids))

ModuleOfNodes(mn, es) == ModuleWithIds(mn, {mn[i].id : i \in 1..Len(mn)}, es)

(* mods is ModuleIds(ns): the module key of every node record *)
Module(ns, mods, es, top_pkg) == ModuleOfNodes(SelectAt(ns, mods, top_pkg), es)

sub_hierarchy(m) == {Tree(m.mod_node_map, m.links.children, nid) : nid \in m.sub_root_ids}

ContentOf(m) == [hierarchy |-> sub_hierarchy(m), edges |-> m.sub_edges]

ModuleContent(ns, mods, es, top_pkg) == ContentOf(Module(ns, mods, es, top_pkg))

IndexName == <<"i", "n", "d", "e", "x">> \o JsonExt

ModuleFileName(top_pkg) == Replace(top_pkg, ".", "_") \o JsonExt

out_dir(target) == RStrip(target, Sep)

RECURSIVE WriteModules(_, _, _, _, _, _)
(* "for top_pkg, pkg_ids in top_pkg_map.items()": open(..., 'w') replaces the file *)
WriteModules(disk, dir, ns, mods, es, keys) ==
    IF keys = <<>> THEN disk
    ELSE WriteModules((PathJoin(dir, ModuleFileName(Head(keys)))
                          :> ModuleContent(ns, mods, es, Head(keys))) @@ disk,
                      dir, ns, mods, es, Tail(keys))

IndexContent(keys) == [array |-> Sorted(keys)]

WriteIndex(disk, dir, keys) == (PathJoin(dir, IndexName) :> IndexContent(keys)) @@ disk

WriteAll(dir, ns, mods, es) ==
    WriteIndex(WriteModules(NoFiles, dir, ns, mods, es, DistinctInOrder(mods)),
               dir, DistinctInOrder(mods))

EmptyFile == [empty |-> TRUE]

ExportModular(target) ==
    /\ pc = "assembled"
    /\ ~EndsWith(target, JsonExt)
    /\ output_file' = target
    /\ written' = WriteAll(out_dir(target), nodes, ModuleIds(nodes), edges) @@ written
    /\ printed' = Append(printed, [saved |-> "modular", at |-> out_dir(target)])
    /\ pc' = "done"
    /\ UNCHANGED <<visited, nodes, edges, seen, children, parent, roots, rels, stderr>>

(* the else branch: open() truncates the target, then json.dump(result, ...)  *)
(* names a variable that is bound nowhere, so NameError ends the run before   *)
(* anything is written or printed                                             *)
ExportAggregate(target) ==
    /\ pc = "assembled"
    /\ EndsWith(target, JsonExt)
    /\ output_file' = target
    /\ written' = (target :> EmptyFile) @@ written
    /\ pc' = "crashed"
    /\ UNCHANGED <<visited, nodes, edges, seen, children, parent, roots, rels, printed,
                   stderr>>

Next ==
    \/ \E rel \in WalkFiles, content \in FileContents : VisitFile(rel, content)
    \/ BuildHierarchy
    \/ \E target \in OutputTargets : ExportModular(target)
    \/ \E target \in OutputTargets : ExportAggregate(target)

Spec == Init /\ [][Next]_vars

TypeOK ==
    /\ pc \in {"walk", "assembled", "done", "crashed"}
    /\ Cardinality(visited) <= MaxFiles

(* ------------------------------------------------------------------ *)
(* Properties                                                         *)
(* ------------------------------------------------------------------ *)
AllIds == {nodes[i].id : i \in 1..Len(nodes)}

Keys == Range(ModuleKeys(nodes))

(* C1: the node list never holds two records with the same id and the same *)
(* type tag, however often an id is declared, imported or referenced.      *)
C1_Uniqueness ==
    \A i, j \in 1..Len(nodes) :
        i < j => ~(nodes[i].id = nodes[j].id /\ nodes[i].type = nodes[j].type)

(* an id imported by two files, and an id that is both declared (contains) *)
(* and referenced as a supertype (extends): each was registered once only  *)
C1_Witness ==
    /\ \E i, j \in 1..Len(edges) :
          /\ i < j
          /\ edges[i].type = "import" /\ edges[j].type = "import"
          /\ edges[i].target = edges[j].target
    /\ \E i, j \in 1..Len(edges) :
          /\ edges[i].type = "contains" /\ edges[j].type = "extends"
          /\ edges[i].target = edges[j].target

(* C2: a file the parser fails on (it is reported on stderr) leaves the    *)
(* node and edge lists unchanged.                                          *)
C2_FailedFileAddsNothing ==
    [][stderr' # stderr => (nodes' = nodes /\ edges' = edges)]_vars

(* C3: after assembly every node occurs at most once across all children   *)
(* lists, and only in the children list of its recorded parent.            *)
C3_SingleParent ==
    pc # "walk" =>
        \A s1, s2 \in DOMAIN children :
            \A i1 \in 1..Len(children[s1]), i2 \in 1..Len(children[s2]) :
                /\ parent[children[s1][i1]] = s1
                /\ children[s1][i1] = children[s2][i2] => (s1 = s2 /\ i1 = i2)

(* C4: the per-module node-id sets cover all node ids and are pairwise     *)
(* disjoint.                                                               *)
C4_Partition ==
    pc = "done" =>
        /\ UNION {module_node_ids(nodes, k) : k \in Keys} = AllIds
        /\ \A k1, k2 \in Keys :
              k1 # k2 => module_node_ids(nodes, k1) \cap module_node_ids(nodes, k2) = {}

(* the module keys an id resolves to: those of the node records carrying it *)
KeysOfId(mods, id) == {mods[i] : i \in {j \in 1..Len(nodes) : nodes[j].id = id}}

CrossModuleIn(mods, e) ==
    /\ KeysOfId(mods, e.source) # {}
    /\ KeysOfId(mods, e.target) # {}
    /\ KeysOfId(mods, e.source) \cap KeysOfId(mods, e.target) = {}

CrossModule(e) == CrossModuleIn(ModuleIds(nodes), e)

SubEdgesOfAll(mods) ==
    UNION {Range(Module(nodes, mods, edges, k).sub_edges) : k \in Range(mods)}

AllSubEdges == SubEdgesOfAll(ModuleIds(nodes))

C6_AggregateWritten ==
    (pc \in {"done", "crashed"} /\ EndsWith(output_file, JsonExt)) =>
        /\ pc = "done"
        /\ printed # <<>>
        /\ output_file \in DOMAIN written
        /\ written[output_file] =
              [hierarchy |-> Forest(NodeMap(nodes), children, roots), relations |-> rels]

(* C7: after a modular export distinct module keys have distinct file      *)
(* names, none of them the index file, each file holds its module's        *)
(* subgraph, and the index is the sorted list of the module keys.          *)
C7_OneFilePerModule ==
    pc = "done" =>
        LET dir == out_dir(output_file)
        IN  /\ \A k1, k2 \in Keys : k1 # k2 => ModuleFileName(k1) # ModuleFileName(k2)
            /\ \A k \in Keys : ModuleFileName(k) # IndexName
            /\ \A k \in Keys :
                  /\ PathJoin(dir, ModuleFileName(k)) \in DOMAIN written
                  /\ written[PathJoin(dir, ModuleFileName(k))] =
                        ModuleContent(nodes, ModuleIds(nodes), edges, k)
            /\ LET idx == written[PathJoin(dir, IndexName)].array
               IN  /\ Range(idx) = Keys
                   /\ Len(idx) = Cardinality(Keys)
                   /\ \A i \in 1..(Len(idx) - 1) : StrLess(idx[i], idx[i + 1])

(* C8: the parent recorded for a target is the source of the latest        *)
(* contains edge (between known nodes) that targets it.                    *)
C8_LastWriterWins ==
    pc # "walk" =>
        \A i \in 1..Len(edges) :
            ( /\ edges[i].type = "contains"
              /\ edges[i].source \in AllIds /\ edges[i].target \in AllIds
              /\ \A j \in (i + 1)..Len(edges) :
                    ~(edges[j].type = "contains" /\ edges[j].target = edges[i].target
                      /\ edges[j].source \in AllIds) )
            => parent[edges[i].target] = edges[i].source

C8_Witness ==
    /\ pc = "assembled"
    /\ \E i, j \in 1..Len(edges) :
          /\ i < j
          /\ edges[i].type = "contains" /\ edges[j].type = "contains"
          /\ edges[i].target = edges[j].target
          /\ edges[i].source # edges[j].source
          /\ {edges[i].source, edges[j].source, edges[i].target} \subseteq AllIds

(* C9: each module's roots, children lists and relation list are what the  *)
(* aggregate assembler yields on that module's nodes and edges.            *)
C9_ModuleMatchesAssembler ==
    pc = "done" =>
        \A k \in Keys :
            LET m   == Module(nodes, ModuleIds(nodes), edges, k)
                ids == m.module_node_ids
                h   == Links(EmptyLinks(ids), ids, m.module_edges)
            IN  /\ m.links = h
                /\ m.sub_edges = Rels(m.module_edges)
                /\ m.sub_root_ids =
                      Range(SelectRoots(m.mod_node_map, NodeIds(m.module_nodes), h.parent))

(* C10: every contains, import, extends and implements edge joins two ids  *)
(* that are ids of nodes already in the node list; only calls edges may    *)
(* point at an id without a node.                                          *)
C10_EndpointsKnown ==
    \A i \in 1..Len(edges) :
        edges[i].type \in {"contains", "import", "extends", "implements"} =>
            edges[i].source \in AllIds /\ edges[i].target \in AllIds

C10_Witness ==
    /\ \A t \in {"contains", "import", "extends", "implements"} :
          \E i \in 1..Len(edges) : edges[i].type = t
    /\ \E i \in 1..Len(edges) : edges[i].type = "calls" /\ edges[i].target \notin AllIds

====
